---- MODULE Spec2Model ----
(***************************************************************************)
(* A model of the flare-flags evaluator (src/src/client.ts, the newer      *)
(* FlareFlags class and its matchUser helper).                             *)
(*                                                                         *)
(* JavaScript values are tagged records [t |-> type, v |-> value]; the     *)
(* value of a primitive is kept as a string, so that a number 1 and a      *)
(* string "1" are different values that compare without coercion.  An      *)
(* object value carries a function from its own keys to values.            *)
(***************************************************************************)
EXTENDS Naturals, Sequences, FiniteSets, TLC

(***************************************************************************)
(* JavaScript values                                                       *)
(***************************************************************************)
JSString(s) == [t |-> "string", v |-> s]
JSNumber(n) == [t |-> "number", v |-> n]
JSBoolean(b) == [t |-> "boolean", v |-> IF b THEN "true" ELSE "false"]
JSObject(o) == [t |-> "object", v |-> o]
JSUndefined == [t |-> "undefined", v |-> "undefined"]
JSFunction == [t |-> "function", v |-> "function"]

\* The empty object {} (no own keys).
EmptyProperties == [k \in {} |-> JSUndefined]

\* Names every plain object inherits from Object.prototype (a sample).
ObjectPrototypeKeys == {"constructor", "toString"}

\* obj[key] on a plain object: own property, else inherited, else undefined.
JSGet(obj, key) ==
  IF key \in DOMAIN obj THEN obj[key]
  ELSE IF key \in ObjectPrototypeKeys THEN JSFunction
  ELSE JSUndefined

\* x === y on primitives: same type and same value, no coercion.
StrictEquals(x, y) == x.t = y.t /\ x.v = y.v

\* String.prototype.startsWith and String.prototype.slice(n).
StartsWith(s, p) == Len(s) >= Len(p) /\ SubSeq(s, 1, Len(p)) = p
Slice(s, n) == SubSeq(s, n + 1, Len(s))

COHORT_PROPERTY_PREFIX == "__cohort__"

\* DEFAULT_CONFIG of ./constants: the configuration held before any setConfig.
DEFAULT_CONFIG == [cohorts |-> EmptyProperties, flags |-> EmptyProperties]

(***************************************************************************)
(* Bounds and input sets                                                   *)
(***************************************************************************)
\* Longest matcher list of a flag rule in the evaluation specification.
MaxMatchers == 2
\* Number of distinct listener functions.
MaxListeners == 2

\* The default-set flag names in for-in order, and one name outside the set.
FlagOrder == <<"a", "b">>
DefaultNames == {FlagOrder[i] : i \in 1..Len(FlagOrder)}
UnknownNames == {"x", "toString"}

UserIds == {"u1", "u2", COHORT_PROPERTY_PREFIX \o "c1"}

PlanString == [k \in {"plan"} |-> JSString("1")]
PlanNumber == [k \in {"plan"} |-> JSNumber("1")]
IdU1 == [k \in {"id"} |-> JSString("u1")]
IdU2 == [k \in {"id"} |-> JSString("u2")]
PlanAndId == [k \in {"plan", "id"} |-> IF k = "plan" THEN JSString("1") ELSE JSString("u1")]

\* Values of the properties argument of identify (EmptyProperties also
\* stands for an omitted argument: spreading undefined adds no key).
PropertyBags == {EmptyProperties, PlanString, PlanNumber, IdU2, PlanAndId}

\* Matchers: user ids, cohort references, property objects.
MatcherU1 == JSString("u1")
CohortRef(c) == JSString(COHORT_PROPERTY_PREFIX \o c)
AllMatchers ==
  {MatcherU1, CohortRef("c1"), JSObject(PlanString), JSObject(IdU1),
   JSObject(EmptyProperties)}

ListsUpTo(S, n) == UNION {[1..k -> S] : k \in 0..n}

Listeners == 1..MaxListeners

(***************************************************************************)
(* matchUser                                                               *)
(***************************************************************************)
\* Mutant: a string matcher is compared with the id before its prefix is
\* looked at.
MatcherMatchesIdFirst(userObj, m, cohorts) ==
  IF m.t = "string"
  THEN \/ StrictEquals(m, JSGet(userObj, "id"))
       \/ /\ StartsWith(m.v, COHORT_PROPERTY_PREFIX)
          /\ Slice(m.v, Len(COHORT_PROPERTY_PREFIX)) \in cohorts
  ELSE /\ m.t = "object"
       /\ \A key \in DOMAIN m.v : StrictEquals(JSGet(userObj, key), m.v[key])

\* Mutant: a property matcher needs at least one key to match.
MatcherMatchesNeedsKey(userObj, m, cohorts) ==
  IF m.t = "string"
  THEN IF StartsWith(m.v, COHORT_PROPERTY_PREFIX)
       THEN Slice(m.v, Len(COHORT_PROPERTY_PREFIX)) \in cohorts
       ELSE StrictEquals(m, JSGet(userObj, "id"))
  ELSE /\ m.t = "object"
       /\ DOMAIN m.v # {}
       /\ \A key \in DOMAIN m.v : StrictEquals(JSGet(userObj, key), m.v[key])

\* One call of the callback of matchers.some: truthy iff m matches.
MatcherMatches(userObj, m, cohorts) ==
  IF m.t = "string"
  THEN IF StartsWith(m.v, COHORT_PROPERTY_PREFIX)
       THEN Slice(m.v, Len(COHORT_PROPERTY_PREFIX)) \in cohorts
       ELSE StrictEquals(m, JSGet(userObj, "id"))
  ELSE /\ m.t = "object"
       /\ \A key \in DOMAIN m.v : StrictEquals(JSGet(userObj, key), m.v[key])

\* Mutant: every matcher has to match (matchers.every).
matchUserEvery(userObj, matchers, cohorts) ==
  \A i \in 1..Len(matchers) : MatcherMatches(userObj, matchers[i], cohorts)

\* matchers.some(...)
matchUser(userObj, matchers, cohorts) ==
  \E i \in 1..Len(matchers) : MatcherMatches(userObj, matchers[i], cohorts)

(***************************************************************************)
(* State                                                                   *)
(***************************************************************************)
VARIABLES
  defaultValues,   \* #defaultValues: flag name -> BOOLEAN, frozen
  config,          \* #config
  user,            \* #user: <<>> when undefined, else <<the user object>>
  evalFlagValues,  \* #evalFlagValues: flag name -> BOOLEAN
  listeners,       \* #listeners: a Set, kept in insertion order
  handles,         \* listeners for which subscribe has returned a handle
  call,            \* the most recent public call and its arguments
  notified,        \* listeners invoked by the most recent call, in order
  lastMutation,    \* the most recent of setConfig / identify / reset
  scenario,        \* the inputs of the evaluation scenario (EvalSpec)
  observed,        \* the snapshot each listener invoked by that call reads
  history,         \* the calls made so far, when they are recorded (TraceSpec)
  round,           \* the notification rounds in progress (RoundSpec)
  worker           \* the key-value store of the worker functions (WorkerSpec)

vars ==
  <<defaultValues, config, user, evalFlagValues, listeners, handles, call,
    notified, lastMutation, scenario, observed, history, round, worker>>

\* { id, ...properties }: a key of properties named id overwrites id.
UserObject(id, properties) ==
  [k \in {"id"} \cup DOMAIN properties |->
     IF k \in DOMAIN properties THEN properties[k] ELSE JSString(id)]

\* Mutant: the listeners are called from the most recently registered on.
notifyListenersReversed(ls) == [i \in 1..Len(ls) |-> ls[Len(ls) + 1 - i]]

\* Mutant: every listener is called twice in a round.
notifyListenersTwice(ls) == [i \in 1..(2 * Len(ls)) |-> ls[((i - 1) % Len(ls)) + 1]]

\* for (const listener of this.#listeners) listener();
notifyListeners(ls) == [i \in 1..Len(ls) |-> ls[i]]

\* The loop of #resetEvalFlagValues from position i on.
RECURSIVE ResetLoop(_, _, _, _)
ResetLoop(i, defaults, values, isChanged) ==
  IF i > Len(FlagOrder) THEN [values |-> values, isChanged |-> isChanged]
  ELSE LET flagName == FlagOrder[i]
           prevValue == values[flagName]
           defaultValue == defaults[flagName]
       IN IF prevValue # defaultValue
          THEN ResetLoop(i + 1, defaults,
                         [values EXCEPT ![flagName] = defaultValue], TRUE)
          ELSE ResetLoop(i + 1, defaults, values, isChanged)

\* Mutant: the change is detected but the default is never written back.
resetEvalFlagValuesKeepsValues(defaults, values) ==
  [values |-> values,
   isChanged |-> ResetLoop(1, defaults, values, FALSE).isChanged]

\* Mutant: the reset always reports a change.
resetEvalFlagValuesAlwaysChanged(defaults, values) ==
  [values |-> ResetLoop(1, defaults, values, FALSE).values, isChanged |-> TRUE]

resetEvalFlagValues(defaults, values) == ResetLoop(1, defaults, values, FALSE)

\* Mutant: a cohort's matcher list is matched with the cohorts found so far
\* (c2 before c1), so a reference inside a cohort definition is resolved.
MatchedCohortsAccumulating(cfg, usr) ==
  IF usr = <<>> THEN {}
  ELSE LET first == {cohortName \in DOMAIN cfg.cohorts \cap {"c2"} :
                       matchUser(usr[1], cfg.cohorts[cohortName], {})}
       IN first \cup {cohortName \in DOMAIN cfg.cohorts \ {"c2"} :
                        matchUser(usr[1], cfg.cohorts[cohortName], first)}

\* Mutant: every defined cohort counts as matched once a user is present.
MatchedCohortsAll(cfg, usr) ==
  IF usr = <<>> THEN {} ELSE DOMAIN cfg.cohorts

\* The cohorts the user matches (cohort matcher lists get no cohort set).
MatchedCohorts(cfg, usr) ==
  IF usr = <<>> THEN {}
  ELSE {cohortName \in DOMAIN cfg.cohorts :
          matchUser(usr[1], cfg.cohorts[cohortName], {})}

\* Mutant: only the first matcher of a rule is tried.
FlagValueFirstMatcher(flagName, defaults, cfg, usr, matchedCohorts) ==
  IF flagName \notin DOMAIN cfg.flags THEN defaults[flagName]
  ELSE IF Head(cfg.flags[flagName]) THEN TRUE
       ELSE IF usr # <<>>
            THEN matchUser(usr[1],
                           IF Len(cfg.flags[flagName]) > 1
                           THEN <<cfg.flags[flagName][2]>> ELSE <<>>,
                           matchedCohorts)
            ELSE FALSE

\* Mutant: the leading boolean is ignored, the matchers always decide.
FlagValueIgnoresLeading(flagName, defaults, cfg, usr, matchedCohorts) ==
  IF flagName \notin DOMAIN cfg.flags THEN defaults[flagName]
  ELSE IF usr # <<>>
       THEN matchUser(usr[1], Tail(cfg.flags[flagName]), matchedCohorts)
       ELSE FALSE

\* Mutant: without a user a matcher rule falls back to the default value.
FlagValueNoUserDefault(flagName, defaults, cfg, usr, matchedCohorts) ==
  IF flagName \notin DOMAIN cfg.flags THEN defaults[flagName]
  ELSE IF Head(cfg.flags[flagName]) THEN TRUE
       ELSE IF usr # <<>>
            THEN matchUser(usr[1], Tail(cfg.flags[flagName]), matchedCohorts)
            ELSE defaults[flagName]

\* Mutant: a flag without a rule is disabled instead of taking its default.
FlagValueAbsentFalse(flagName, defaults, cfg, usr, matchedCohorts) ==
  IF flagName \notin DOMAIN cfg.flags THEN FALSE
  ELSE IF Head(cfg.flags[flagName]) THEN TRUE
       ELSE IF usr # <<>>
            THEN matchUser(usr[1], Tail(cfg.flags[flagName]), matchedCohorts)
            ELSE FALSE

\* The value #evalFlags assigns to one flag.
FlagValue(flagName, defaults, cfg, usr, matchedCohorts) ==
  IF flagName \notin DOMAIN cfg.flags THEN defaults[flagName]
  ELSE LET flagConfig == cfg.flags[flagName]
           leadingIsEnabled == Head(flagConfig)
           matchers == Tail(flagConfig)
       IN IF leadingIsEnabled THEN TRUE
          ELSE IF usr # <<>> THEN matchUser(usr[1], matchers, matchedCohorts)
          ELSE FALSE

\* Mutant: isChanged is overwritten for each flag instead of accumulated.
RECURSIVE EvalLoopOverwritesChanged(_, _, _, _, _, _, _)
EvalLoopOverwritesChanged(i, defaults, cfg, usr, matchedCohorts, values, isChanged) ==
  IF i > Len(FlagOrder) THEN [values |-> values, isChanged |-> isChanged]
  ELSE LET flagName == FlagOrder[i]
           newValue == FlagValue(flagName, defaults, cfg, usr, matchedCohorts)
       IN EvalLoopOverwritesChanged(i + 1, defaults, cfg, usr, matchedCohorts,
                                    [values EXCEPT ![flagName] = newValue],
                                    values[flagName] # newValue)

\* The flag loop of #evalFlags from position i on.
RECURSIVE EvalLoop(_, _, _, _, _, _, _)
EvalLoop(i, defaults, cfg, usr, matchedCohorts, values, isChanged) ==
  IF i > Len(FlagOrder) THEN [values |-> values, isChanged |-> isChanged]
  ELSE LET flagName == FlagOrder[i]
           newValue == FlagValue(flagName, defaults, cfg, usr, matchedCohorts)
       IN EvalLoop(i + 1, defaults, cfg, usr, matchedCohorts,
                   [values EXCEPT ![flagName] = newValue],
                   isChanged \/ values[flagName] # newValue)

\* Mutant: the loop also writes an entry for every name of the configuration.
evalFlagsOverConfigNames(defaults, cfg, usr, values) ==
  LET r == EvalLoop(1, defaults, cfg, usr, MatchedCohorts(cfg, usr), values, FALSE)
  IN [values |-> [n \in DOMAIN r.values \cup DOMAIN cfg.flags |->
                    IF n \in DOMAIN r.values THEN r.values[n]
                    ELSE Head(cfg.flags[n])],
      isChanged |-> r.isChanged]

\* Mutant: the evaluation always reports a change.
evalFlagsAlwaysChanged(defaults, cfg, usr, values) ==
  [values |-> EvalLoop(1, defaults, cfg, usr, MatchedCohorts(cfg, usr),
                       values, FALSE).values,
   isChanged |-> TRUE]

\* #evalFlags.  Its first branch (!this.#config) needs a falsy configuration;
\* setConfig takes a Config object and DEFAULT_CONFIG is an object, so the
\* held configuration is always truthy and the branch is never taken.
evalFlags(defaults, cfg, usr, values) ==
  EvalLoop(1, defaults, cfg, usr, MatchedCohorts(cfg, usr), values, FALSE)

\* isEnabled(flag): this.#evalFlagValues[flag] ?? false, as a JavaScript value.
\* #evalFlagValues is a plain object, so a name it does not own is looked up
\* on Object.prototype before ?? sees undefined.
isEnabled(flag) ==
  LET got == IF flag \in DOMAIN evalFlagValues
             THEN JSBoolean(evalFlagValues[flag])
             ELSE JSGet(EmptyProperties, flag)
  IN IF got.t = "undefined" THEN JSBoolean(FALSE) ELSE got

(***************************************************************************)
(* Inputs of the state-machine specification                               *)
(***************************************************************************)
Absent == <<>>

\* A flags object from the rule chosen for each name (Absent: no entry).
FlagsObject(ra, rb, rx) ==
  LET rule == [n \in {"a", "b", "x"} |->
                 IF n = "a" THEN ra ELSE IF n = "b" THEN rb ELSE rx]
  IN [n \in {m \in {"a", "b", "x"} : rule[m] # Absent} |-> rule[n]]

NoCohorts == EmptyProperties
CohortC1(matchers) == [c \in {"c1"} |-> matchers]

RulesA ==
  {Absent, <<TRUE>>, <<TRUE, MatcherU1>>, <<FALSE>>, <<FALSE, MatcherU1>>,
   <<FALSE, CohortRef("c1")>>}
RulesB == {Absent, <<TRUE>>, <<FALSE, MatcherU1>>}
RulesX == {Absent, <<TRUE>>}

Configs ==
  {[cohorts |-> CohortC1(<<JSObject(PlanString)>>),
    flags |-> FlagsObject(ra, rb, rx)] :
     ra \in RulesA, rb \in RulesB, rx \in RulesX}

Ids == {"u1", "u2"}
Properties == {EmptyProperties, PlanString}

NoScenario == [config |-> DEFAULT_CONFIG, id |-> "", properties |-> EmptyProperties]

NoArgs == [op |-> "new", id |-> "", properties |-> EmptyProperties]

(***************************************************************************)
(* Operations                                                              *)
(***************************************************************************)
NoHistory == [on |-> FALSE, calls |-> <<>>]
EmptyHistory == [on |-> TRUE, calls |-> <<>>]

\* The record of one call: its arguments, the fields it leaves, the snapshot
\* before and after it, the listeners registered when it began and the
\* listeners it invoked.
Entry(c, l, cfg, usr, after, notif) ==
  [call |-> c, listener |-> l, config |-> cfg, user |-> usr,
   before |-> evalFlagValues, after |-> after,
   registered |-> listeners, notified |-> notif]

Recorded(e) ==
  IF history.on THEN [history EXCEPT !.calls = Append(@, e)] ELSE history

\* Mutant: listeners are called from inside the flag loop, at the first flag
\* that changes.
CommittedAtNotifyFirstChange(before, r) ==
  LET changed == {i \in 1..Len(FlagOrder) :
                    before[FlagOrder[i]] # r.values[FlagOrder[i]]}
      first == CHOOSE i \in changed : \A j \in changed : i <= j
  IN IF changed = {} THEN r.values
     ELSE [f \in DOMAIN before |->
             IF f = FlagOrder[first] THEN r.values[f] ELSE before[f]]

\* The snapshot in place when #notifyListeners is called: the flag loop has
\* written every flag before the call.
CommittedAtNotify(before, r) == r.values

\* What the listeners of one round read through isEnabled.
ListenerReads(notif, before, r) ==
  [i \in 1..Len(notif) |-> CommittedAtNotify(before, r)]

(***************************************************************************)
(* The worker functions getConfig(kv) and setConfig(kv, config)            *)
(***************************************************************************)
JSNull == [t |-> "null", v |-> ""]
NonFinite == {"NaN", "Infinity", "-Infinity"}

\* Mutant: strings are written without their quotes.
JSONTextUnquoted(value) ==
  IF value.t = "string" THEN value.v
  ELSE IF value.t = "number" THEN (IF value.v \in NonFinite THEN "null" ELSE value.v)
  ELSE IF value.t = "boolean" THEN (IF value.v = "true" THEN "true" ELSE "false")
  ELSE "null"

\* JSON.stringify of a string, number or boolean: a string in quotes, a
\* finite number as its digits, NaN and the infinities as null.
JSONText(value) ==
  IF value.t = "string" THEN "\"" \o value.v \o "\""
  ELSE IF value.t = "number" THEN (IF value.v \in NonFinite THEN "null" ELSE value.v)
  ELSE IF value.t = "boolean" THEN (IF value.v = "true" THEN "true" ELSE "false")
  ELSE "null"

\* JSON.parse of the text of a scalar.
JSONScalar(text) ==
  IF text = "null" THEN JSNull
  ELSE IF text \in {"true", "false"} THEN [t |-> "boolean", v |-> text]
  ELSE IF StartsWith(text, "\"") THEN JSString(SubSeq(text, 2, Len(text) - 1))
  ELSE JSNumber(text)

\* JSON.stringify / JSON.parse of a matcher, a matcher list, a rule, a
\* configuration: arrays and objects keep their shape, scalars become text.
StringifyMatcher(m) ==
  IF m.t = "object"
  THEN [kind |-> "object", members |-> [k \in DOMAIN m.v |-> JSONText(m.v[k])]]
  ELSE [kind |-> "scalar", text |-> JSONText(m)]

ParseMatcher(j) ==
  IF j.kind = "object"
  THEN JSObject([k \in DOMAIN j.members |-> JSONScalar(j.members[k])])
  ELSE JSONScalar(j.text)

StringifyRule(rule) ==
  [i \in 1..Len(rule) |->
     IF i = 1 THEN [kind |-> "scalar", text |-> IF rule[1] THEN "true" ELSE "false"]
     ELSE StringifyMatcher(rule[i])]

ParseRule(j) ==
  [i \in 1..Len(j) |-> IF i = 1 THEN j[1].text = "true" ELSE ParseMatcher(j[i])]

JSONStringify(cfg) ==
  [cohorts |-> [c \in DOMAIN cfg.cohorts |->
                  [i \in 1..Len(cfg.cohorts[c]) |-> StringifyMatcher(cfg.cohorts[c][i])]],
   flags |-> [f \in DOMAIN cfg.flags |-> StringifyRule(cfg.flags[f])]]

JSONParse(j) ==
  [cohorts |-> [c \in DOMAIN j.cohorts |->
                  [i \in 1..Len(j.cohorts[c]) |-> ParseMatcher(j.cohorts[c][i])]],
   flags |-> [f \in DOMAIN j.flags |-> ParseRule(j.flags[f])]]

\* The store: the text under KEY (<<>> when there is none), the kv.put calls
\* in flight, the argument of the setConfig call that completed last, and
\* the result of the last getConfig call with the completed call it follows.
NoWorker ==
  [kv |-> <<>>, puts |-> {}, completed |-> <<>>,
   got |-> [value |-> <<>>, after |-> <<>>]]

(***************************************************************************)
(* Listeners that act: what a listener function does when it is invoked    *)
(***************************************************************************)
\* Invocations followed within one notification round.
MaxInvocations == 3

\* A listener reads isEnabled, throws, calls its own handle, calls its handle
\* and subscribes itself again, subscribes or unsubscribes another listener,
\* or calls setConfig, identify or reset.
Behaviours ==
  {"read", "throw", "unsubSelf", "resubSelf", "subOther", "unsubOther",
   "callSetConfig", "callIdentify", "callReset"}

\* The listener another listener acts on.
Other(l) == (l % MaxListeners) + 1

\* At most one listener does more than read or throw.
BehaviourAssignments ==
  {b \in [Listeners -> Behaviours] :
     Cardinality({l \in Listeners : b[l] \notin {"read", "throw"}}) <= 1}

NoMutation ==
  [op |-> "none", values |-> <<>>, config |-> DEFAULT_CONFIG, user |-> <<>>,
   nested |-> FALSE]

\* behaviour: what each listener does; data: the entries of the Set of
\* listeners, a deleted entry left empty while a round iterates; stack: the
\* rounds in progress, innermost last; aborted: the rounds a throw unwound;
\* view: the snapshot each reading listener holds; mounted: the listeners
\* mounted through the hook; last: the mutation executed last; outer: the
\* snapshot the outermost call committed.
RoundOf(b) ==
  [behaviour |-> b, data |-> <<>>, stack |-> <<>>, aborted |-> <<>>,
   thrown |-> FALSE, faulted |-> FALSE, view |-> [l \in Listeners |-> <<>>],
   mounted |-> {}, last |-> NoMutation, outer |-> <<>>]

NoRound == RoundOf([l \in Listeners |-> "read"])

\* The entry list of a Set: add appends unless present, delete empties the
\* entry in place, iteration skips empty entries and sees appended ones.
Empty == 0
SetAdd(data, l) ==
  IF \E i \in 1..Len(data) : data[i] = l THEN data ELSE Append(data, l)
SetDelete(data, l) == [i \in 1..Len(data) |-> IF data[i] = l THEN Empty ELSE data[i]]
Entries(data) == SelectSeq(data, LAMBDA x : x # Empty)
NextEntry(data, from) ==
  IF \E i \in from..Len(data) : data[i] # Empty
  THEN CHOOSE i \in from..Len(data) :
         data[i] # Empty /\ \A j \in from..(i - 1) : data[j] = Empty
  ELSE 0

\* subscribe called as a method of the instance, or detached from it: then
\* this is undefined, this.#listeners throws a TypeError and nothing is added.
subscribeCalled(bound, data, l) == IF bound THEN SetAdd(data, l) ELSE data

\* Mutant: the call that started a round writes its own result again when
\* the round is over.
ReturnFromRewrites(frame, values) == frame.values

\* The snapshot when #notifyListeners has returned: nothing is written after it.
ReturnFrom(frame, values) == values

\* Mutant: a throw puts back the snapshot the outermost call started from.
AfterThrowRollsBack(frame, values) == frame.before

\* The snapshot when a listener's exception leaves the outermost call: no
\* try, catch or finally is on its way.
AfterThrow(frame, values) == values

\* new FlareFlags(defaultValues)
Built(defaults, inputs) ==
  /\ defaultValues = defaults
  /\ config = DEFAULT_CONFIG
  /\ user = <<>>
  /\ evalFlagValues = defaults
  /\ listeners = <<>>
  /\ handles = {}
  /\ call = NoArgs
  /\ notified = <<>>
  /\ lastMutation = "none"
  /\ scenario = inputs
  /\ observed = <<>>

\* An instance whose listeners do nothing but read, with no worker store.
Fresh(defaults, inputs) ==
  Built(defaults, inputs) /\ round = NoRound /\ worker = NoWorker

Constructed(defaults, inputs) == Fresh(defaults, inputs) /\ history = NoHistory

Init == \E defaults \in [DefaultNames -> BOOLEAN] : Constructed(defaults, NoScenario)

\* Mutant: the new configuration's flags are merged over the held ones.
setConfigMerges(c) ==
  LET merged == [c EXCEPT !.flags =
                   [n \in DOMAIN config.flags \cup DOMAIN c.flags |->
                      IF n \in DOMAIN c.flags THEN c.flags[n] ELSE config.flags[n]]]
      r == evalFlags(defaultValues, merged, user, evalFlagValues)
      notif == IF r.isChanged THEN notifyListeners(listeners) ELSE <<>>
      args == [NoArgs EXCEPT !.op = "setConfig"]
  IN /\ config' = merged
     /\ evalFlagValues' = r.values
     /\ notified' = notif
     /\ observed' = ListenerReads(notif, evalFlagValues, r)
     /\ call' = args
     /\ lastMutation' = "setConfig"
     /\ history' = Recorded(Entry(args, 0, c, user, r.values, notif))
     /\ UNCHANGED <<defaultValues, user, listeners, handles, scenario, round, worker>>

\* Mutant: setConfig stores the configuration and leaves its evaluation to
\* the next identify call.
setConfigStoresOnly(c) ==
  LET args == [NoArgs EXCEPT !.op = "setConfig"]
  IN /\ config' = c
     /\ notified' = <<>>
     /\ observed' = <<>>
     /\ call' = args
     /\ lastMutation' = "setConfig"
     /\ history' = Recorded(Entry(args, 0, c, user, evalFlagValues, <<>>))
     /\ UNCHANGED <<defaultValues, user, evalFlagValues, listeners, handles,
                    scenario, round, worker>>

setConfig(c) ==
  LET r == evalFlags(defaultValues, c, user, evalFlagValues)
      notif == IF r.isChanged THEN notifyListeners(listeners) ELSE <<>>
      args == [NoArgs EXCEPT !.op = "setConfig"]
  IN /\ config' = c
     /\ evalFlagValues' = r.values
     /\ notified' = notif
     /\ observed' = ListenerReads(notif, evalFlagValues, r)
     /\ call' = args
     /\ lastMutation' = "setConfig"
     /\ history' = Recorded(Entry(args, 0, c, user, r.values, notif))
     /\ UNCHANGED <<defaultValues, user, listeners, handles, scenario, round, worker>>

\* Mutant: the snapshot is the defaults object itself, so the loop's writes
\* land in the defaults.
identifyWritesDefaults(id, properties) ==
  LET u == <<UserObject(id, properties)>>
      r == evalFlags(defaultValues, config, u, evalFlagValues)
      notif == IF r.isChanged THEN notifyListeners(listeners) ELSE <<>>
      args == [op |-> "identify", id |-> id, properties |-> properties]
  IN /\ user' = u
     /\ evalFlagValues' = r.values
     /\ defaultValues' = r.values
     /\ notified' = notif
     /\ observed' = ListenerReads(notif, evalFlagValues, r)
     /\ call' = args
     /\ lastMutation' = "identify"
     /\ history' = Recorded(Entry(args, 0, config, u, r.values, notif))
     /\ UNCHANGED <<config, listeners, handles, scenario, round, worker>>

\* Mutant: the new properties are merged over the held subject's.
identifyMerges(id, properties) ==
  LET held == IF user = <<>> THEN EmptyProperties ELSE user[1]
      merged == [k \in DOMAIN held \cup DOMAIN properties |->
                   IF k \in DOMAIN properties THEN properties[k] ELSE held[k]]
      u == <<[UserObject(id, merged) EXCEPT !["id"] =
                IF "id" \in DOMAIN properties THEN properties["id"]
                ELSE JSString(id)]>>
      r == evalFlags(defaultValues, config, u, evalFlagValues)
      notif == IF r.isChanged THEN notifyListeners(listeners) ELSE <<>>
      args == [op |-> "identify", id |-> id, properties |-> properties]
  IN /\ user' = u
     /\ evalFlagValues' = r.values
     /\ notified' = notif
     /\ observed' = ListenerReads(notif, evalFlagValues, r)
     /\ call' = args
     /\ lastMutation' = "identify"
     /\ history' = Recorded(Entry(args, 0, config, u, r.values, notif))
     /\ UNCHANGED <<defaultValues, config, listeners, handles, scenario, round, worker>>

identify(id, properties) ==
  LET u == <<UserObject(id, properties)>>
      r == evalFlags(defaultValues, config, u, evalFlagValues)
      notif == IF r.isChanged THEN notifyListeners(listeners) ELSE <<>>
      args == [op |-> "identify", id |-> id, properties |-> properties]
  IN /\ user' = u
     /\ evalFlagValues' = r.values
     /\ notified' = notif
     /\ observed' = ListenerReads(notif, evalFlagValues, r)
     /\ call' = args
     /\ lastMutation' = "identify"
     /\ history' = Recorded(Entry(args, 0, config, u, r.values, notif))
     /\ UNCHANGED <<defaultValues, config, listeners, handles, scenario, round, worker>>

\* Mutant: reset also drops the configuration.
resetDropsConfig ==
  LET r == resetEvalFlagValues(defaultValues, evalFlagValues)
      notif == IF r.isChanged THEN notifyListeners(listeners) ELSE <<>>
      args == [NoArgs EXCEPT !.op = "reset"]
  IN /\ user' = <<>>
     /\ config' = DEFAULT_CONFIG
     /\ evalFlagValues' = r.values
     /\ notified' = notif
     /\ observed' = ListenerReads(notif, evalFlagValues, r)
     /\ call' = args
     /\ lastMutation' = "reset"
     /\ history' = Recorded(Entry(args, 0, config, <<>>, r.values, notif))
     /\ UNCHANGED <<defaultValues, listeners, handles, scenario, round, worker>>

\* Mutant: reset keeps the subject.
resetKeepsUser ==
  LET r == resetEvalFlagValues(defaultValues, evalFlagValues)
      notif == IF r.isChanged THEN notifyListeners(listeners) ELSE <<>>
      args == [NoArgs EXCEPT !.op = "reset"]
  IN /\ evalFlagValues' = r.values
     /\ notified' = notif
     /\ observed' = ListenerReads(notif, evalFlagValues, r)
     /\ call' = args
     /\ lastMutation' = "reset"
     /\ history' = Recorded(Entry(args, 0, config, <<>>, r.values, notif))
     /\ UNCHANGED <<defaultValues, config, user, listeners, handles, scenario, round, worker>>

reset ==
  LET r == resetEvalFlagValues(defaultValues, evalFlagValues)
      notif == IF r.isChanged THEN notifyListeners(listeners) ELSE <<>>
      args == [NoArgs EXCEPT !.op = "reset"]
  IN /\ user' = <<>>
     /\ evalFlagValues' = r.values
     /\ notified' = notif
     /\ observed' = ListenerReads(notif, evalFlagValues, r)
     /\ call' = args
     /\ lastMutation' = "reset"
     /\ history' = Recorded(Entry(args, 0, config, <<>>, r.values, notif))
     /\ UNCHANGED <<defaultValues, config, listeners, handles, scenario, round, worker>>

IsListener(l) == \E i \in 1..Len(listeners) : listeners[i] = l

\* Mutant: the listeners are kept in an array, so a listener subscribed twice
\* is held twice.
subscribeAppends(l) ==
  /\ listeners' = Append(listeners, l)
  /\ handles' = handles \cup {l}
  /\ call' = [NoArgs EXCEPT !.op = "subscribe"]
  /\ notified' = <<>>
  /\ observed' = <<>>
  /\ history' = Recorded(Entry([NoArgs EXCEPT !.op = "subscribe"], l, config,
                               user, evalFlagValues, <<>>))
  /\ UNCHANGED <<defaultValues, config, user, evalFlagValues, lastMutation, scenario, round, worker>>

\* Set.prototype.add keeps one entry per listener, in insertion order.
\* The caller keeps the handle of its first subscribe(l) call; unsubscribe(l)
\* is a call of that handle, so a later unsubscribe(l) calls it again.
subscribe(l) ==
  /\ listeners' = IF IsListener(l) THEN listeners ELSE Append(listeners, l)
  /\ handles' = handles \cup {l}
  /\ call' = [NoArgs EXCEPT !.op = "subscribe"]
  /\ notified' = <<>>
  /\ observed' = <<>>
  /\ history' = Recorded(Entry([NoArgs EXCEPT !.op = "subscribe"], l, config,
                               user, evalFlagValues, <<>>))
  /\ UNCHANGED <<defaultValues, config, user, evalFlagValues, lastMutation, scenario, round, worker>>

\* Mutant: the handle leaves the listener registered.
unsubscribeKeeps(l) ==
  /\ l \in handles
  /\ call' = [NoArgs EXCEPT !.op = "unsubscribe"]
  /\ notified' = <<>>
  /\ observed' = <<>>
  /\ history' = Recorded(Entry([NoArgs EXCEPT !.op = "unsubscribe"], l, config,
                               user, evalFlagValues, <<>>))
  /\ UNCHANGED <<defaultValues, config, user, evalFlagValues, handles,
                 lastMutation, scenario, round, worker, listeners>>

\* The handle returned by subscribe(l): () => this.#listeners.delete(l)
unsubscribe(l) ==
  /\ l \in handles
  /\ listeners' = SelectSeq(listeners, LAMBDA x : x # l)
  /\ call' = [NoArgs EXCEPT !.op = "unsubscribe"]
  /\ notified' = <<>>
  /\ observed' = <<>>
  /\ history' = Recorded(Entry([NoArgs EXCEPT !.op = "unsubscribe"], l, config,
                               user, evalFlagValues, <<>>))
  /\ UNCHANGED <<defaultValues, config, user, evalFlagValues, handles,
                 lastMutation, scenario, round, worker>>

DoSetConfig == \E c \in Configs : setConfig(c)
DoIdentify == \E id \in Ids, properties \in Properties : identify(id, properties)
DoReset == reset
DoSubscribe == \E l \in Listeners : subscribe(l)
DoUnsubscribe == \E l \in Listeners : unsubscribe(l)

Next == DoSetConfig \/ DoIdentify \/ DoReset \/ DoSubscribe \/ DoUnsubscribe

Spec == Init /\ [][Next]_vars

\* The operations available when no configuration is ever pushed.
NextNoConfig == DoIdentify \/ DoReset \/ DoSubscribe \/ DoUnsubscribe

NoConfigSpec == Init /\ [][NextNoConfig]_vars

(***************************************************************************)
(* The evaluation scenario: one configuration and one identify call drawn  *)
(* from larger sets, applied to a fresh instance in any order.             *)
(***************************************************************************)
CohortMatchers == {MatcherU1, JSObject(PlanString), CohortRef("c2")}

EvalCohorts ==
  {NoCohorts} \cup
  {CohortC1(l) : l \in ListsUpTo(CohortMatchers, 1)} \cup
  {[c \in {"c1", "c2"} |-> IF c = "c1" THEN l ELSE <<MatcherU1>>] :
     l \in ListsUpTo(CohortMatchers, 1)}

EvalRules ==
  {Absent} \cup
  {<<b>> \o l : b \in BOOLEAN, l \in ListsUpTo(AllMatchers, MaxMatchers)}

EvalConfigs ==
  {[cohorts |-> cs, flags |-> FlagsObject(ra, rb, Absent)] :
     cs \in EvalCohorts, ra \in EvalRules,
     rb \in {Absent, <<FALSE, CohortRef("c1")>>}}

EvalInit ==
  \E defaults \in [DefaultNames -> BOOLEAN], c \in EvalConfigs,
     id \in UserIds, properties \in PropertyBags :
    Constructed(defaults, [config |-> c, id |-> id, properties |-> properties])

EvalSetConfig == setConfig(scenario.config)
EvalIdentify == identify(scenario.id, scenario.properties)
EvalReset == reset

NextEval == EvalSetConfig \/ EvalIdentify \/ EvalReset

EvalSpec == EvalInit /\ [][NextEval]_vars

(***************************************************************************)
(* Recorded runs: every sequence of at most MaxCalls calls on a fresh      *)
(* instance, with the calls and their effects kept in history.             *)
(***************************************************************************)
\* Calls in a recorded run.
MaxCalls == 4

TraceConfigs ==
  {[cohorts |-> NoCohorts, flags |-> FlagsObject(<<TRUE>>, <<TRUE>>, Absent)],
   [cohorts |-> NoCohorts, flags |-> FlagsObject(<<FALSE, MatcherU1>>, Absent, Absent)],
   [cohorts |-> CohortC1(<<JSObject(PlanString)>>),
    flags |-> FlagsObject(<<FALSE, CohortRef("c1")>>,
                          <<FALSE, JSObject(PlanString)>>, Absent)]}

TraceDefaults ==
  {[f \in DefaultNames |-> FALSE], [f \in DefaultNames |-> f = "a"]}

TraceInit ==
  \E defaults \in TraceDefaults :
    Fresh(defaults, NoScenario) /\ history = EmptyHistory

MoreCalls == Len(history.calls) < MaxCalls

TraceSetConfig == MoreCalls /\ \E c \in TraceConfigs : setConfig(c)
TraceIdentify ==
  MoreCalls /\ (identify("u1", EmptyProperties) \/ identify("u2", PlanString))
TraceReset == MoreCalls /\ reset
TraceSubscribe == MoreCalls /\ \E l \in Listeners : subscribe(l)
TraceUnsubscribe == MoreCalls /\ \E l \in Listeners : unsubscribe(l)

NextTrace ==
  TraceSetConfig \/ TraceIdentify \/ TraceReset \/ TraceSubscribe
    \/ TraceUnsubscribe

TraceSpec == TraceInit /\ [][NextTrace]_vars

\* The recorded calls and their positions.
Calls == history.calls
Positions == 1..Len(Calls)
IsMutation(e) == e.call.op \in {"setConfig", "identify", "reset"}

\* The flags whose value a recorded call changed.
ChangedFlags(e) == {f \in DefaultNames : e.before[f] # e.after[f]}

\* How often listener l was invoked by a recorded call.
Invocations(e, l) == Cardinality({i \in 1..Len(e.notified) : e.notified[i] = l})

\* The listeners registered when a recorded call began.
Registered(e) == {e.registered[i] : i \in 1..Len(e.registered)}

(***************************************************************************)
(* Notification rounds step by step: a mutation commits and opens a round, *)
(* each step invokes the next listener of the innermost round, and a       *)
(* listener does what its behaviour says.                                  *)
(***************************************************************************)
RoundDefaults == [f \in DefaultNames |-> FALSE]

ConfigOn == [cohorts |-> NoCohorts, flags |-> FlagsObject(<<TRUE>>, <<TRUE>>, Absent)]
ConfigU1 ==
  [cohorts |-> NoCohorts, flags |-> FlagsObject(<<FALSE, MatcherU1>>, Absent, Absent)]

MutationSetConfig(c) ==
  [op |-> "setConfig", config |-> c, id |-> "", properties |-> EmptyProperties]
MutationIdentify ==
  [op |-> "identify", config |-> DEFAULT_CONFIG, id |-> "u1",
   properties |-> EmptyProperties]
MutationReset ==
  [op |-> "reset", config |-> DEFAULT_CONFIG, id |-> "", properties |-> EmptyProperties]

RoundMutations ==
  {MutationSetConfig(ConfigOn), MutationSetConfig(ConfigU1), MutationIdentify,
   MutationReset}

\* The mutation a listener with a calling behaviour makes.
CalledBy(b) ==
  IF b = "callSetConfig" THEN MutationSetConfig(ConfigU1)
  ELSE IF b = "callIdentify" THEN MutationIdentify
  ELSE MutationReset

\* The fields a mutation assigns and the result of its evaluation.
Applied(m) ==
  LET cfg == IF m.op = "setConfig" THEN m.config ELSE config
      usr == IF m.op = "identify" THEN <<UserObject(m.id, m.properties)>>
             ELSE IF m.op = "reset" THEN <<>> ELSE user
  IN [config |-> cfg, user |-> usr,
      r |-> IF m.op = "reset"
            THEN resetEvalFlagValues(defaultValues, evalFlagValues)
            ELSE evalFlags(defaultValues, cfg, usr, evalFlagValues)]

Commit(m) ==
  /\ config' = Applied(m).config
  /\ user' = Applied(m).user
  /\ evalFlagValues' = Applied(m).r.values

\* The rounds once mutation m has committed: a new round when it changed a flag.
Begun(rnd, m, nested) ==
  LET ap == Applied(m)
      frame == [index |-> 1, invoked |-> <<>>, added |-> FALSE,
                before |-> evalFlagValues, values |-> ap.r.values]
  IN [rnd EXCEPT
        !.stack = IF ap.r.isChanged THEN Append(@, frame) ELSE @,
        !.last = [op |-> m.op, values |-> <<ap.r.values>>, config |-> ap.config,
                  user |-> ap.user, nested |-> nested],
        !.outer = IF nested THEN @ ELSE <<ap.r.values>>,
        !.thrown = IF nested THEN @ ELSE FALSE,
        !.aborted = IF nested THEN @ ELSE <<>>]

\* A listener that reads takes its first value when it subscribes.
Subscribed(rnd, bound, l) ==
  [rnd EXCEPT
     !.data = subscribeCalled(bound, @, l),
     !.view[l] = IF rnd.behaviour[l] = "read" THEN <<evalFlagValues>> ELSE @]

RoundInit ==
  \E b \in BehaviourAssignments :
    /\ Built(RoundDefaults, NoScenario)
    /\ history = NoHistory
    /\ worker = NoWorker
    /\ round = RoundOf(b)

Idle == round.stack = <<>>

\* setConfig, identify or reset called from outside any listener.
RoundCall ==
  /\ Idle
  /\ \E m \in RoundMutations : Commit(m) /\ round' = Begun(round, m, FALSE)
  /\ UNCHANGED <<defaultValues, listeners, handles, call, notified,
                 lastMutation, scenario, observed, history, worker>>

RoundSubscribe ==
  /\ Idle
  /\ \E l \in Listeners :
       /\ round' = Subscribed(round, TRUE, l)
       /\ listeners' = Entries(round'.data)
       /\ handles' = handles \cup {l}
  /\ UNCHANGED <<defaultValues, config, user, evalFlagValues, call, notified,
                 lastMutation, scenario, observed, history, worker>>

RoundUnsubscribe ==
  /\ Idle
  /\ \E l \in handles :
       /\ round' = [round EXCEPT !.data = Entries(SetDelete(@, l))]
       /\ listeners' = Entries(round'.data)
  /\ UNCHANGED <<defaultValues, config, user, evalFlagValues, handles, call,
                 notified, lastMutation, scenario, observed, history, worker>>

\* A component using the hook is mounted: useSyncExternalStore reads
\* isEnabled and calls instance.subscribe detached from the instance.
RoundMount ==
  /\ Idle
  /\ \E l \in Listeners \ (handles \cup round.mounted) :
       /\ round.behaviour[l] = "read"
       /\ round' = [Subscribed(round, FALSE, l) EXCEPT !.mounted = @ \cup {l}]
       /\ listeners' = Entries(round'.data)
  /\ UNCHANGED <<defaultValues, config, user, evalFlagValues, handles, call,
                 notified, lastMutation, scenario, observed, history, worker>>

\* The innermost round, the entry its iterator finds next, and the rounds
\* with the invocation of that entry entered.
Depth == Len(round.stack)
Top == round.stack[Depth]
Found == NextEntry(round.data, Top.index)
Current == round.data[Found]
Entered ==
  [round EXCEPT !.stack[Depth] =
     [@ EXCEPT !.index = Found + 1, !.invoked = Append(@, Current)]]
CanInvoke == ~Idle /\ Found > 0 /\ Len(Top.invoked) < MaxInvocations

\* The iterator is exhausted: #notifyListeners and the mutation return.
RoundReturn ==
  /\ ~Idle
  /\ Found = 0
  /\ round' = [round EXCEPT !.stack = SubSeq(@, 1, Depth - 1),
                            !.data = IF Depth = 1 THEN Entries(@) ELSE @]
  /\ evalFlagValues' = ReturnFrom(Top, evalFlagValues)
  /\ UNCHANGED <<defaultValues, config, user, listeners, handles, call,
                 notified, lastMutation, scenario, observed, history, worker>>

InvokeRead ==
  /\ CanInvoke
  /\ round.behaviour[Current] = "read"
  /\ round' = [Entered EXCEPT !.view[Current] = <<evalFlagValues>>]
  /\ UNCHANGED <<defaultValues, config, user, evalFlagValues, listeners,
                 handles, call, notified, lastMutation, scenario, observed,
                 history, worker>>

\* The exception leaves every round in progress and the outermost call.
InvokeThrow ==
  /\ CanInvoke
  /\ round.behaviour[Current] = "throw"
  /\ round' = [Entered EXCEPT !.stack = <<>>, !.aborted = Entered.stack,
                              !.thrown = TRUE, !.faulted = TRUE,
                              !.data = Entries(@)]
  /\ evalFlagValues' = AfterThrow(Entered.stack[1], evalFlagValues)
  /\ UNCHANGED <<defaultValues, config, user, listeners, handles, call,
                 notified, lastMutation, scenario, observed, history, worker>>

InvokeRegistry ==
  /\ CanInvoke
  /\ round.behaviour[Current] \in {"unsubSelf", "resubSelf", "subOther", "unsubOther"}
  /\ LET b == round.behaviour[Current]
         target == IF b \in {"subOther", "unsubOther"} THEN Other(Current) ELSE Current
         deleted == IF b = "subOther" \/ target \notin handles THEN round.data
                    ELSE SetDelete(round.data, target)
         adds == b \in {"resubSelf", "subOther"}
         after == IF adds THEN Subscribed([Entered EXCEPT !.data = deleted], TRUE, target)
                  ELSE [Entered EXCEPT !.data = deleted]
     IN /\ round' = [after EXCEPT !.stack =
                       [k \in 1..Depth |->
                          [@[k] EXCEPT !.added = @ \/ (adds /\ after.data # deleted)]]]
        /\ listeners' = Entries(after.data)
        /\ handles' = IF adds THEN handles \cup {target} ELSE handles
  /\ UNCHANGED <<defaultValues, config, user, evalFlagValues, call, notified,
                 lastMutation, scenario, observed, history, worker>>

\* The listener calls setConfig, identify or reset: the nested call commits
\* and, when it changed a flag, opens its own round.
InvokeMutation ==
  /\ CanInvoke
  /\ round.behaviour[Current] \in {"callSetConfig", "callIdentify", "callReset"}
  /\ Commit(CalledBy(round.behaviour[Current]))
  /\ round' = Begun(Entered, CalledBy(round.behaviour[Current]), TRUE)
  /\ UNCHANGED <<defaultValues, listeners, handles, call, notified,
                 lastMutation, scenario, observed, history, worker>>

NextRound ==
  RoundCall \/ RoundSubscribe \/ RoundUnsubscribe \/ RoundMount \/ RoundReturn
    \/ InvokeRead \/ InvokeThrow \/ InvokeRegistry \/ InvokeMutation

RoundSpec == RoundInit /\ [][NextRound]_vars

(***************************************************************************)
(* The worker functions over a key-value store                             *)
(***************************************************************************)
\* kv.put calls in flight at once.
MaxPuts == 2

Score(n) == [k \in {"score"} |-> JSNumber(n)]
Beta == [k \in {"beta"} |-> JSBoolean(TRUE)]

WorkerConfigs ==
  {[cohorts |-> NoCohorts, flags |-> FlagsObject(<<TRUE>>, Absent, Absent)],
   [cohorts |-> CohortC1(<<JSObject(PlanString), MatcherU1>>),
    flags |-> FlagsObject(<<FALSE, CohortRef("c1")>>, <<FALSE, JSObject(Beta)>>, Absent)],
   [cohorts |-> CohortC1(<<JSObject(PlanNumber)>>),
    flags |-> FlagsObject(<<FALSE, JSObject(Score("7"))>>, Absent, Absent)],
   [cohorts |-> NoCohorts,
    flags |-> FlagsObject(<<FALSE, JSObject(Score("Infinity"))>>, Absent, Absent)]}

WorkerInit ==
  Built(RoundDefaults, NoScenario) /\ history = NoHistory /\ round = NoRound
    /\ worker = NoWorker

Instance ==
  <<defaultValues, config, user, evalFlagValues, listeners, handles, call,
    notified, lastMutation, scenario, observed, history, round>>

\* setConfig(kv, config) up to its await: the text is built and kv.put called.
workerSetConfig ==
  /\ Cardinality(worker.puts) < MaxPuts
  /\ \E c \in WorkerConfigs :
       worker' = [worker EXCEPT !.puts = @ \cup {[text |-> JSONStringify(c), config |-> c]}]
  /\ UNCHANGED Instance

\* A kv.put takes effect and its setConfig call completes.
kvPut ==
  /\ \E p \in worker.puts :
       worker' = [worker EXCEPT !.kv = <<p.text>>, !.puts = @ \ {p},
                                !.completed = <<p.config>>]
  /\ UNCHANGED Instance

\* getConfig(kv): value ? JSON.parse(value) : DEFAULT_CONFIG
workerGetConfig ==
  /\ worker' = [worker EXCEPT !.got =
                  [value |-> <<IF worker.kv = <<>> THEN DEFAULT_CONFIG
                               ELSE JSONParse(worker.kv[1])>>,
                   after |-> worker.completed]]
  /\ UNCHANGED Instance

NextWorker == workerSetConfig \/ kvPut \/ workerGetConfig

WorkerSpec == WorkerInit /\ [][NextWorker]_vars

(***************************************************************************)
(* Reads among the other calls: isEnabled as a call of its own             *)
(***************************************************************************)
\* The names isEnabled is called with: a default-set flag and an unknown name.
ReadNames == {"a", "x"}

\* Mutant: a name the snapshot lacks is stored as false when it is read
\* (this.#evalFlagValues[flag] ??= false).
isEnabledCalledStores(flag) ==
  /\ evalFlagValues' =
       [n \in DOMAIN evalFlagValues \cup {flag} |->
          IF n \in DOMAIN evalFlagValues THEN evalFlagValues[n] ELSE FALSE]
  /\ call' = [op |-> "isEnabled", id |-> flag, properties |-> EmptyProperties]
  /\ notified' = <<>>
  /\ observed' = <<>>
  /\ history' = Recorded(Entry([op |-> "isEnabled", id |-> flag,
                                properties |-> EmptyProperties],
                               0, config, user, evalFlagValues, <<>>))
  /\ UNCHANGED <<defaultValues, config, user, listeners, handles, lastMutation,
                 scenario, round, worker>>

\* A call of isEnabled(flag): it returns isEnabled(flag) and assigns no field
\* (call.id holds the flag name).
isEnabledCalled(flag) ==
  /\ call' = [op |-> "isEnabled", id |-> flag, properties |-> EmptyProperties]
  /\ notified' = <<>>
  /\ observed' = <<>>
  /\ history' = Recorded(Entry([op |-> "isEnabled", id |-> flag,
                                properties |-> EmptyProperties],
                               0, config, user, evalFlagValues, <<>>))
  /\ UNCHANGED <<defaultValues, config, user, evalFlagValues, listeners,
                 handles, lastMutation, scenario, round, worker>>

ReadInit == \E defaults \in TraceDefaults : Constructed(defaults, NoScenario)

ReadSetConfig == \E c \in TraceConfigs : setConfig(c)
ReadIdentify == identify("u1", EmptyProperties) \/ identify("u2", PlanString)
ReadReset == reset
ReadSubscribe == \E l \in Listeners : subscribe(l)
ReadUnsubscribe == \E l \in Listeners : unsubscribe(l)
ReadIsEnabled == \E flag \in ReadNames : isEnabledCalled(flag)

NextRead ==
  ReadSetConfig \/ ReadIdentify \/ ReadReset \/ ReadSubscribe \/ ReadUnsubscribe
    \/ ReadIsEnabled

ReadSpec == ReadInit /\ [][NextRead]_vars

(***************************************************************************)
(* The older FlareFlags class of client.ts (lines 10-117), replayed over   *)
(* the calls of a recorded run                                             *)
(***************************************************************************)
\* The callback of matchers.some in the older matchUser.
olderMatcherMatches(userObj, m, cohorts) ==
  IF m.t = "string"
  THEN IF StartsWith(m.v, COHORT_PROPERTY_PREFIX)
       THEN Slice(m.v, Len(COHORT_PROPERTY_PREFIX)) \in cohorts
       ELSE StrictEquals(m, JSGet(userObj, "id"))
  ELSE /\ m.t = "object"
       /\ \A key \in DOMAIN m.v : StrictEquals(JSGet(userObj, key), m.v[key])

olderMatchUser(userObj, matchers, cohorts) ==
  \E i \in 1..Len(matchers) : olderMatcherMatches(userObj, matchers[i], cohorts)

\* The cohort loop of the older #evalFlags.
OlderMatchedCohorts(cfg, usr) ==
  IF usr = <<>> THEN {}
  ELSE {cohortName \in DOMAIN cfg.cohorts :
          olderMatchUser(usr[1], cfg.cohorts[cohortName], {})}

\* Mutant: a flag without a rule keeps the value it has.
OlderFlagWrittenKeepsAbsent(flagName, defaults, cfg, usr, matchedCohorts, flags) ==
  IF flagName \notin DOMAIN cfg.flags THEN flags[flagName]
  ELSE IF Head(cfg.flags[flagName]) THEN TRUE
       ELSE IF usr # <<>>
            THEN olderMatchUser(usr[1], Tail(cfg.flags[flagName]), matchedCohorts)
            ELSE FALSE

\* The value one pass of the older flag loop writes to this.#flags[flagName].
OlderFlagWritten(flagName, defaults, cfg, usr, matchedCohorts, flags) ==
  IF flagName \notin DOMAIN cfg.flags THEN defaults[flagName]
  ELSE LET flagConfig == cfg.flags[flagName]
           leadingIsEnabled == Head(flagConfig)
           matchers == Tail(flagConfig)
       IN IF leadingIsEnabled THEN TRUE
          ELSE IF usr # <<>> THEN olderMatchUser(usr[1], matchers, matchedCohorts)
          ELSE FALSE

\* The flag loop of the older #evalFlags from position i on.
RECURSIVE OlderEvalLoop(_, _, _, _, _, _, _)
OlderEvalLoop(i, defaults, cfg, usr, matchedCohorts, flags, flagsChanged) ==
  IF i > Len(FlagOrder) THEN [flags |-> flags, flagsChanged |-> flagsChanged]
  ELSE LET flagName == FlagOrder[i]
           written == OlderFlagWritten(flagName, defaults, cfg, usr,
                                       matchedCohorts, flags)
       IN OlderEvalLoop(i + 1, defaults, cfg, usr, matchedCohorts,
                        [flags EXCEPT ![flagName] = written],
                        flagsChanged \/ flags[flagName] # written)

\* The older #evalFlags; its !this.#config branch is never taken, the held
\* configuration being an object.
olderEvalFlags(defaults, cfg, usr, flags) ==
  OlderEvalLoop(1, defaults, cfg, usr, OlderMatchedCohorts(cfg, usr), flags, FALSE)

\* The older isEnabled: this.#flags[flag] ?? false on a plain object.
olderIsEnabled(flags, flag) ==
  LET got == IF flag \in DOMAIN flags THEN JSBoolean(flags[flag])
             ELSE JSGet(EmptyProperties, flag)
  IN IF got.t = "undefined" THEN JSBoolean(FALSE) ELSE got

olderNotifyListeners(ls) == [i \in 1..Len(ls) |-> ls[i]]

\* An instance of the older class after construction; notified holds the
\* listeners its most recent call invoked.
OlderBuilt(defaults) ==
  [flagsDefaults |-> defaults, config |-> DEFAULT_CONFIG, user |-> <<>>,
   flags |-> defaults, listeners |-> <<>>, notified |-> <<>>]

olderSetConfig(o, c) ==
  LET r == olderEvalFlags(o.flagsDefaults, c, o.user, o.flags)
  IN [o EXCEPT !.config = c, !.flags = r.flags,
               !.notified = IF r.flagsChanged THEN olderNotifyListeners(o.listeners)
                            ELSE <<>>]

olderIndenify(o, id, properties) ==
  LET u == <<UserObject(id, properties)>>
      r == olderEvalFlags(o.flagsDefaults, o.config, u, o.flags)
  IN [o EXCEPT !.user = u, !.flags = r.flags,
               !.notified = IF r.flagsChanged THEN olderNotifyListeners(o.listeners)
                            ELSE <<>>]

olderSubscribe(o, l) ==
  [o EXCEPT !.listeners = IF \E i \in 1..Len(@) : @[i] = l THEN @ ELSE Append(@, l),
            !.notified = <<>>]

olderUnsubscribe(o, l) ==
  [o EXCEPT !.listeners = SelectSeq(@, LAMBDA x : x # l), !.notified = <<>>]

\* The older instance after the call a recorded entry describes.
OlderStep(o, e) ==
  IF e.call.op = "setConfig" THEN olderSetConfig(o, e.config)
  ELSE IF e.call.op = "identify" THEN olderIndenify(o, e.call.id, e.call.properties)
  ELSE IF e.call.op = "subscribe" THEN olderSubscribe(o, e.listener)
  ELSE IF e.call.op = "unsubscribe" THEN olderUnsubscribe(o, e.listener)
  ELSE o

\* The older instance after the first n recorded calls.
RECURSIVE OlderRun(_)
OlderRun(n) ==
  IF n = 0 THEN OlderBuilt(defaultValues) ELSE OlderStep(OlderRun(n - 1), Calls[n])

(***************************************************************************)
(* Properties                                                              *)
(***************************************************************************)
HasRule(f) == f \in DOMAIN config.flags
AlwaysOn(f) == HasRule(f) /\ Head(config.flags[f])
MatcherRule(f) == HasRule(f) /\ ~Head(config.flags[f])

\* C1 (as stated): in every reachable state a default-set flag whose rule
\* has a leading true is enabled.
AlwaysOnDominance ==
  \A f \in DefaultNames : AlwaysOn(f) => isEnabled(f) = JSBoolean(TRUE)

\* C1 (amended): a default-set flag whose rule has a leading true is enabled
\* in every state whose most recent mutation is not reset; when it is reset,
\* the flag has its default value.
AlwaysOnDominanceUnlessReset ==
  \A f \in DefaultNames :
    AlwaysOn(f) =>
      isEnabled(f) = JSBoolean(lastMutation # "reset" \/ defaultValues[f])

AlwaysOnDominanceWitness ==
  /\ lastMutation = "setConfig"
  /\ call.op = "unsubscribe"
  /\ user = <<>>
  /\ AlwaysOn("a")
  /\ ~defaultValues["a"]
  /\ isEnabled("a") = JSBoolean(TRUE)

\* C2: immediately after reset() returns, every default-set flag has its
\* default value.
ResetRoundTrip ==
  call.op = "reset" =>
    \A f \in DefaultNames : isEnabled(f) = JSBoolean(defaultValues[f])

ResetRoundTripWitness ==
  /\ call.op = "reset"
  /\ AlwaysOn("a") /\ ~defaultValues["a"]
  /\ MatcherRule("b") /\ defaultValues["b"]
  /\ notified # <<>>

\* C3 (as stated): with no subject, a default-set flag whose rule has a
\* leading false is disabled.
NoSubjectMeansDisabled ==
  user = <<>> =>
    \A f \in DefaultNames : MatcherRule(f) => isEnabled(f) = JSBoolean(FALSE)

\* C3 (amended): with no subject, a default-set flag whose rule has a leading
\* false is disabled unless the most recent mutation is reset; when it is
\* reset, the flag has its default value.
NoSubjectMeansDisabledUnlessReset ==
  user = <<>> =>
    \A f \in DefaultNames :
      MatcherRule(f) =>
        isEnabled(f) = JSBoolean(lastMutation = "reset" /\ defaultValues[f])

NoSubjectMeansDisabledWitness ==
  /\ user = <<>>
  /\ lastMutation = "setConfig"
  /\ MatcherRule("a")
  /\ Len(config.flags["a"]) > 1
  /\ defaultValues["a"]
  /\ isEnabled("a") = JSBoolean(FALSE)

\* C8: without any setConfig call, every default-set flag has its default
\* value in every reachable state.
DefaultFallback ==
  \A f \in DefaultNames : isEnabled(f) = JSBoolean(defaultValues[f])

DefaultFallbackWitness ==
  /\ call.op = "identify"
  /\ defaultValues["a"] /\ ~defaultValues["b"]
  /\ isEnabled("a") = JSBoolean(TRUE)

\* C9: isEnabled returns false for every name that is not a key of the
\* default values.
UnknownNameSafety ==
  \A n \in UnknownNames : isEnabled(n) = JSBoolean(FALSE)

\* C10: a setConfig or identify call invokes the subscribed listeners iff some
\* default-set flag differs between the snapshots before and after the call.
ChangeDetection ==
  [][call'.op \in {"setConfig", "identify"} =>
       notified' =
         IF \E f \in DefaultNames : evalFlagValues'[f] # evalFlagValues[f]
         THEN listeners ELSE <<>>]_vars

ChangeDetectionWitness ==
  /\ call.op = "identify"
  /\ Len(listeners) = 2
  /\ notified = listeners

\* The state right after a setConfig or identify call has returned.
AfterEvaluation == call.op \in {"setConfig", "identify"}

\* C4: right after setConfig or identify, a default-set flag with rule
\* [false, m1, ..., mN] is enabled iff a subject is present and some mi is
\* satisfied by it; with no matcher it is disabled.
ORSemantics ==
  AfterEvaluation =>
    \A f \in DefaultNames :
      MatcherRule(f) =>
        isEnabled(f) =
          JSBoolean(/\ user # <<>>
                    /\ \E i \in 2..Len(config.flags[f]) :
                         MatcherMatches(user[1], config.flags[f][i],
                                        MatchedCohorts(config, user)))

ORSemanticsWitness ==
  /\ call.op = "identify"
  /\ HasRule("a")
  /\ config.flags["a"] = <<FALSE, JSObject(PlanString), MatcherU1>>
  /\ user = <<UserObject("u1", EmptyProperties)>>
  /\ isEnabled("a") = JSBoolean(TRUE)

\* C5: a flag whose rule is one property matcher is enabled for the subject
\* built by identify(id, properties) iff every key of the matcher is a key of
\* properties with a strictly equal value.
PropertyExactness ==
  (AfterEvaluation /\ user # <<>>) =>
    \A f \in DefaultNames :
      (MatcherRule(f) /\ Len(config.flags[f]) = 2
         /\ config.flags[f][2].t = "object") =>
        LET m == config.flags[f][2].v
        IN isEnabled(f) =
             JSBoolean(\A key \in DOMAIN m :
                         /\ key \in DOMAIN scenario.properties
                         /\ StrictEquals(scenario.properties[key], m[key]))

\* C6: right after setConfig or identify, a flag whose rule is one reference
\* to cohort c is enabled iff a subject is present, the configuration defines
\* c, and the subject satisfies the matcher list of c.
CohortNames == {"c1", "c2"}

CohortIndirection ==
  AfterEvaluation =>
    \A f \in DefaultNames, c \in CohortNames :
      (HasRule(f) /\ config.flags[f] = <<FALSE, CohortRef(c)>>) =>
        isEnabled(f) =
          JSBoolean(/\ user # <<>>
                    /\ c \in DOMAIN config.cohorts
                    /\ matchUser(user[1], config.cohorts[c], {}))

CohortIndirectionWitness ==
  /\ call.op = "setConfig"
  /\ HasRule("b")
  /\ config.flags["b"] = <<FALSE, CohortRef("c1")>>
  /\ config.cohorts = CohortC1(<<JSObject(PlanString)>>)
  /\ user = <<UserObject("u2", PlanString)>>
  /\ isEnabled("b") = JSBoolean(TRUE)

\* C7: after identify(id, properties), a flag whose rule is one string
\* matcher m without the cohort prefix is enabled iff m equals id.
IdentifierMatcher ==
  (AfterEvaluation /\ user # <<>>) =>
    \A f \in DefaultNames :
      (MatcherRule(f) /\ Len(config.flags[f]) = 2
         /\ config.flags[f][2].t = "string"
         /\ ~StartsWith(config.flags[f][2].v, COHORT_PROPERTY_PREFIX)) =>
        isEnabled(f) = JSBoolean(config.flags[f][2].v = scenario.id)

\* C11: a single setConfig, identify or reset call that changes at least one
\* flag invokes each subscribed listener exactly once, however many flags
\* change.
NotificationCoalescing ==
  \A i \in Positions :
    (IsMutation(Calls[i]) /\ ChangedFlags(Calls[i]) # {}) =>
      \A l \in Listeners :
        Invocations(Calls[i], l) = IF l \in Registered(Calls[i]) THEN 1 ELSE 0

NotificationCoalescingWitness ==
  \E i \in Positions :
    /\ Calls[i].call.op = "setConfig"
    /\ ChangedFlags(Calls[i]) = DefaultNames
    /\ Len(Calls[i].registered) = 2
    /\ Len(Calls[i].notified) = 2

\* C12: reset() invokes each subscribed listener exactly once if the snapshot
\* before the call differs from the defaults, and no listener otherwise.
ResetNotification ==
  [][call'.op = "reset" =>
       notified' = IF evalFlagValues # defaultValues THEN listeners ELSE <<>>]_vars

ResetNotificationWitness ==
  /\ call.op = "reset"
  /\ Len(listeners) = 2
  /\ notified = listeners

\* C13: a setConfig call that repeats the configuration of the setConfig call
\* right before it invokes no listener and changes no flag value.
IdempotentReapply ==
  \A i \in Positions :
    (/\ i > 1
     /\ Calls[i].call.op = "setConfig"
     /\ Calls[i - 1].call.op = "setConfig"
     /\ Calls[i].config = Calls[i - 1].config) =>
      /\ Calls[i].notified = <<>>
      /\ Calls[i].after = Calls[i].before

IdempotentReapplyWitness ==
  \E i \in Positions :
    /\ i > 1
    /\ Calls[i].call.op = "setConfig"
    /\ Calls[i - 1].call.op = "setConfig"
    /\ Calls[i].config = Calls[i - 1].config
    /\ Calls[i - 1].notified # <<>>
    /\ Calls[i].registered # <<>>

\* Calls of subscribe(l) and of the handle of l before position i.
SubscribedAt(j, l) == Calls[j].call.op = "subscribe" /\ Calls[j].listener = l
UnsubscribedAt(j, l) == Calls[j].call.op = "unsubscribe" /\ Calls[j].listener = l

\* The handle of l was called before position i, with no subscribe(l) since.
HandleCalled(i, l) ==
  \E j \in 1..(i - 1) :
    UnsubscribedAt(j, l) /\ \A k \in (j + 1)..(i - 1) : ~SubscribedAt(k, l)

\* l was subscribed before position i, with no call of its handle since.
StillSubscribed(i, l) ==
  \E j \in 1..(i - 1) :
    SubscribedAt(j, l) /\ \A k \in (j + 1)..(i - 1) : ~UnsubscribedAt(k, l)

\* C14 (as stated): once the handle of L has been called, L is invoked by no
\* later mutation.
UnsubscribeCorrectness ==
  \A i \in Positions, l \in Listeners :
    (IsMutation(Calls[i]) /\ \E j \in 1..(i - 1) : UnsubscribedAt(j, l)) =>
      Invocations(Calls[i], l) = 0

\* C14 (amended): once the handle of L has been called and L has not been
\* subscribed again, L is invoked by no later mutation, while every listener
\* that is still subscribed is invoked on each later change.
UnsubscribeCorrectnessUntilResubscribed ==
  \A i \in Positions, l \in Listeners :
    IsMutation(Calls[i]) =>
      /\ HandleCalled(i, l) => Invocations(Calls[i], l) = 0
      /\ (StillSubscribed(i, l) /\ ChangedFlags(Calls[i]) # {}) =>
           Invocations(Calls[i], l) = 1

UnsubscribeCorrectnessWitness ==
  \E i \in Positions, l, m \in Listeners :
    /\ IsMutation(Calls[i])
    /\ ChangedFlags(Calls[i]) # {}
    /\ HandleCalled(i, l)
    /\ StillSubscribed(i, m)
    /\ Calls[i].notified = <<m>>

\* The listeners registered when the call at position i returned.
RegisteredAfter(i) ==
  IF i < Len(Calls) THEN Calls[i + 1].registered ELSE listeners

\* C15: a second call of a handle leaves the registered listeners as they
\* were, whatever was subscribed or unsubscribed since its first call.
UnsubscribeIdempotence ==
  \A i \in Positions, l \in Listeners :
    (UnsubscribedAt(i, l) /\ \E j \in 1..(i - 1) : UnsubscribedAt(j, l)) =>
      RegisteredAfter(i) = Calls[i].registered

\* The snapshot #evalFlags leaves for a configuration and a subject.
Evaluated(defaults, cfg, usr) ==
  [f \in DefaultNames |->
     FlagValue(f, defaults, cfg, usr, MatchedCohorts(cfg, usr))]

IsCall(i, op) == i \in Positions /\ Calls[i].call.op = op
Subject(e) == <<UserObject(e.call.id, e.call.properties)>>

\* C16: identify(id, p) right after reset() leaves the snapshot of evaluating
\* the configuration held before the reset against the subject (id, p).
ResetKeepsConfiguration ==
  \A i \in Positions :
    (IsCall(i, "reset") /\ IsCall(i + 1, "identify")) =>
      Calls[i + 1].after =
        Evaluated(defaultValues, Calls[i].config, Subject(Calls[i + 1]))

ResetKeepsConfigurationWitness ==
  \E i \in Positions :
    /\ IsCall(i, "reset")
    /\ IsCall(i + 1, "identify")
    /\ Calls[i].config # DEFAULT_CONFIG
    /\ Calls[i + 1].after # defaultValues
    /\ Calls[i + 1].after # Evaluated(defaultValues, DEFAULT_CONFIG, Subject(Calls[i + 1]))

\* C17: setConfig(c) right after reset() evaluates c with no subject: every
\* default-set flag whose rule in c has a leading false is disabled.
ResetClearsSubject ==
  \A i \in Positions :
    (IsCall(i, "reset") /\ IsCall(i + 1, "setConfig")) =>
      /\ Calls[i + 1].after = Evaluated(defaultValues, Calls[i + 1].config, <<>>)
      /\ \A f \in DefaultNames :
           (/\ f \in DOMAIN Calls[i + 1].config.flags
            /\ ~Head(Calls[i + 1].config.flags[f])) => ~Calls[i + 1].after[f]

ResetClearsSubjectWitness ==
  \E i \in Positions :
    /\ IsCall(i - 1, "identify")
    /\ IsCall(i, "reset")
    /\ IsCall(i + 1, "setConfig")
    /\ \E f \in DefaultNames :
         /\ f \in DOMAIN Calls[i + 1].config.flags
         /\ ~Head(Calls[i + 1].config.flags[f])
         /\ Evaluated(defaultValues, Calls[i + 1].config, Calls[i - 1].user)[f]
         /\ ~Calls[i + 1].after[f]

ConfigurationReplacedWholesale ==
  \A i \in Positions :
    IsCall(i, "setConfig") =>
      /\ Calls[i].after = Evaluated(defaultValues, Calls[i].config, Calls[i].user)
      /\ \A f \in DefaultNames \ DOMAIN Calls[i].config.flags :
           Calls[i].after[f] = defaultValues[f]

ConfigurationReplacedWholesaleWitness ==
  \E i \in Positions, f \in DefaultNames :
    /\ IsCall(i - 1, "setConfig")
    /\ IsCall(i, "setConfig")
    /\ f \in DOMAIN Calls[i - 1].config.flags
    /\ f \notin DOMAIN Calls[i].config.flags
    /\ Calls[i].before[f] # defaultValues[f]
    /\ Calls[i].after[f] = defaultValues[f]

\* C20: after identify(id1, p1) then identify(id2, p2) the snapshot is the
\* evaluation against the subject (id2, p2) alone.
SubjectReplacedWholesale ==
  \A i \in Positions :
    (IsCall(i - 1, "identify") /\ IsCall(i, "identify")) =>
      Calls[i].after = Evaluated(defaultValues, Calls[i].config, Subject(Calls[i]))

SubjectReplacedWholesaleWitness ==
  \E i \in Positions :
    /\ IsCall(i - 1, "identify")
    /\ IsCall(i, "identify")
    /\ "plan" \in DOMAIN Calls[i - 1].call.properties
    /\ "plan" \notin DOMAIN Calls[i].call.properties
    /\ Calls[i - 1].after # defaultValues
    /\ ChangedFlags(Calls[i]) # {}

\* The configuration without the rules of names outside the default set.
DefaultSetRules(cfg) ==
  [cfg EXCEPT !.flags = [n \in DOMAIN cfg.flags \cap DefaultNames |-> cfg.flags[n]]]

\* C21: the snapshot has exactly the keys of the default values, and a rule
\* for a name outside the default set changes no default-set flag: the
\* snapshot is the one the configuration without such rules gives.
FixedFlagUniverse ==
  /\ DOMAIN evalFlagValues = DOMAIN defaultValues
  /\ lastMutation \in {"setConfig", "identify"} =>
       evalFlagValues = Evaluated(defaultValues, DefaultSetRules(config), user)

FixedFlagUniverseWitness ==
  /\ lastMutation = "setConfig"
  /\ "x" \in DOMAIN config.flags
  /\ "x" \notin DOMAIN evalFlagValues
  /\ evalFlagValues # defaultValues

\* The position of the subscribe(l) call that began the registration l has
\* at position i: the first one with no call of the handle of l since.
RegisteredSince(i, l) ==
  CHOOSE j \in 1..(i - 1) :
    /\ SubscribedAt(j, l)
    /\ \A k \in (j + 1)..(i - 1) : ~UnsubscribedAt(k, l)
    /\ \A h \in 1..(j - 1) :
         SubscribedAt(h, l) => \E k \in (h + 1)..(j - 1) : UnsubscribedAt(k, l)

\* C22: a mutation that changes a flag invokes every listener subscribed when
\* it is called exactly once, in registration order, and all of them within
\* the call.
SynchronousOrderedNotification ==
  \A i \in Positions :
    (IsMutation(Calls[i]) /\ ChangedFlags(Calls[i]) # {}) =>
      LET invoked == Calls[i].notified
      IN /\ \A l \in Listeners :
              Invocations(Calls[i], l) = IF StillSubscribed(i, l) THEN 1 ELSE 0
         /\ \A p, q \in 1..Len(invoked) :
              p < q => RegisteredSince(i, invoked[p]) < RegisteredSince(i, invoked[q])

SynchronousOrderedNotificationWitness ==
  \E i \in Positions :
    /\ IsMutation(Calls[i])
    /\ ChangedFlags(Calls[i]) # {}
    /\ Calls[i].notified = <<2, 1>>
    /\ RegisteredSince(i, 2) < RegisteredSince(i, 1)

\* The reference evaluation of a default-set flag in the current state.
ResolvedCohorts ==
  {c \in DOMAIN config.cohorts :
     /\ user # <<>>
     /\ \E i \in 1..Len(config.cohorts[c]) :
          MatcherMatches(user[1], config.cohorts[c][i], {})}

Reference(f) ==
  IF ~HasRule(f) THEN defaultValues[f]
  ELSE IF Head(config.flags[f]) THEN TRUE
  ELSE /\ user # <<>>
       /\ \E i \in 2..Len(config.flags[f]) :
            MatcherMatches(user[1], config.flags[f][i], ResolvedCohorts)

\* C26: right after setConfig or identify every default-set flag has the
\* value of the reference evaluation: its default without a rule, true with
\* a leading true, else subject present and some matcher satisfied.
EvaluationAgainstReference ==
  AfterEvaluation =>
    \A f \in DefaultNames : isEnabled(f) = JSBoolean(Reference(f))

EvaluationAgainstReferenceWitness ==
  /\ call.op = "identify"
  /\ ~HasRule("b")
  /\ defaultValues["b"]
  /\ HasRule("a")
  /\ config.flags["a"] = <<FALSE, MatcherU1, CohortRef("c1")>>
  /\ "c1" \in ResolvedCohorts
  /\ user = <<UserObject("u2", PlanString)>>
  /\ isEnabled("a") = JSBoolean(TRUE)
  /\ isEnabled("b") = JSBoolean(TRUE)

\* A cohort defined by cohort references only.
IsCohortReference(m) == m.t = "string" /\ StartsWith(m.v, COHORT_PROPERTY_PREFIX)
OnlyReferences(c) ==
  /\ c \in DOMAIN config.cohorts
  /\ config.cohorts[c] # <<>>
  /\ \A i \in 1..Len(config.cohorts[c]) : IsCohortReference(config.cohorts[c][i])

\* C27: a cohort whose matcher list holds only cohort references contains no
\* subject: right after setConfig or identify a flag whose rule is one
\* reference to it is disabled, also when the subject is in the cohort it
\* refers to.
NoCohortToCohortResolution ==
  AfterEvaluation =>
    \A f \in DefaultNames, c \in CohortNames :
      (OnlyReferences(c) /\ HasRule(f) /\ config.flags[f] = <<FALSE, CohortRef(c)>>) =>
        isEnabled(f) = JSBoolean(FALSE)

NoCohortToCohortResolutionWitness ==
  /\ call.op = "identify"
  /\ OnlyReferences("c1")
  /\ config.cohorts["c1"] = <<CohortRef("c2")>>
  /\ user # <<>>
  /\ MatchedCohorts(config, user) = {"c2"}
  /\ HasRule("b")
  /\ config.flags["b"] = <<FALSE, CohortRef("c1")>>
  /\ isEnabled("b") = JSBoolean(FALSE)

\* C30: no call changes the default values.
DefaultsAreImmutable == [][defaultValues' = defaultValues]_vars

DefaultsAreImmutableWitness ==
  /\ call.op = "identify"
  /\ evalFlagValues # defaultValues
  /\ \E f \in DefaultNames : defaultValues[f] /\ ~evalFlagValues[f]

\* C25 (as stated): getConfig returns DEFAULT_CONFIG when nothing was stored
\* and otherwise a configuration equal to the argument of the setConfig call
\* that completed last.
PersistenceRoundTrip ==
  worker.got.value # <<>> =>
    worker.got.value[1] =
      IF worker.got.after = <<>> THEN DEFAULT_CONFIG ELSE worker.got.after[1]

\* The configuration with null in place of every NaN or infinite number.
NullIfNonFinite(value) ==
  IF value.t = "number" /\ value.v \in NonFinite THEN JSNull ELSE value
MatcherWithNull(m) ==
  IF m.t = "object" THEN JSObject([k \in DOMAIN m.v |-> NullIfNonFinite(m.v[k])]) ELSE m
WithNull(cfg) ==
  [cohorts |-> [c \in DOMAIN cfg.cohorts |->
                  [i \in 1..Len(cfg.cohorts[c]) |-> MatcherWithNull(cfg.cohorts[c][i])]],
   flags |-> [f \in DOMAIN cfg.flags |->
                [i \in 1..Len(cfg.flags[f]) |->
                   IF i = 1 THEN cfg.flags[f][1] ELSE MatcherWithNull(cfg.flags[f][i])]]]

\* C25 (amended): getConfig returns DEFAULT_CONFIG when nothing was stored and
\* otherwise the argument of the setConfig call that completed last with null
\* in place of every NaN or infinite number: equal to the argument exactly
\* when all its numbers are finite.
PersistenceRoundTripOfFiniteNumbers ==
  worker.got.value # <<>> =>
    /\ worker.got.value[1] =
         IF worker.got.after = <<>> THEN DEFAULT_CONFIG
         ELSE WithNull(worker.got.after[1])
    /\ (worker.got.after # <<>> /\ WithNull(worker.got.after[1]) = worker.got.after[1])
         => worker.got.value[1] = worker.got.after[1]

PersistenceRoundTripWitness ==
  /\ worker.got.after # <<>>
  /\ worker.got.value = worker.got.after
  /\ worker.got.after[1].cohorts = CohortC1(<<JSObject(PlanNumber)>>)
  /\ worker.kv # <<JSONStringify(worker.got.after[1])>>

\* No listener occurs twice in a sequence of invocations.
NoRepeats(invoked) ==
  \A p, q \in 1..Len(invoked) : p # q => invoked[p] # invoked[q]

\* C23: within one notification round each listener is invoked at most once,
\* also when listeners subscribe or call handles during the round.
AtMostOncePerRound ==
  \A k \in 1..Len(round.stack) : NoRepeats(round.stack[k].invoked)

\* The reading listeners that subscribed: directly, or mounted through the hook.
Observers ==
  {l \in Listeners :
     round.behaviour[l] = "read" /\ (IsListener(l) \/ l \in round.mounted)}

\* C24: when no call is in progress (and no listener has thrown), every
\* observer that read when it subscribed and reads again on every
\* notification holds the current snapshot.
ViewCoherence ==
  (Idle /\ ~round.faulted) =>
    \A l \in Observers : round.view[l] = <<evalFlagValues>>

\* C28: when the outermost call has returned after a listener made a nested
\* mutation, the configuration, subject and snapshot are those of the
\* mutation executed last, and the snapshot is its evaluation, not the outer
\* call's.
ReentrantMutation ==
  (Idle /\ round.last.nested) =>
    /\ config = round.last.config
    /\ user = round.last.user
    /\ <<evalFlagValues>> = round.last.values
    /\ evalFlagValues =
         IF round.last.op = "reset" THEN defaultValues
         ELSE Evaluated(defaultValues, config, user)

ReentrantMutationWitness ==
  /\ Idle
  /\ round.last.nested
  /\ ~round.thrown
  /\ round.outer # <<evalFlagValues>>
  /\ round.outer # <<defaultValues>>
  /\ evalFlagValues # defaultValues

ReadsAndRegistrationFrame ==
  [][/\ call'.op = "isEnabled" =>
          /\ defaultValues' = defaultValues
          /\ config' = config
          /\ user' = user
          /\ evalFlagValues' = evalFlagValues
          /\ listeners' = listeners
          /\ notified' = <<>>
     /\ call'.op \in {"subscribe", "unsubscribe"} =>
          /\ defaultValues' = defaultValues
          /\ config' = config
          /\ user' = user
          /\ evalFlagValues' = evalFlagValues
          /\ notified' = <<>>]_vars

ReadsAndRegistrationFrameWitness ==
  /\ call.op = "isEnabled"
  /\ call.id = "x"
  /\ isEnabled("x") = JSBoolean(FALSE)
  /\ listeners # <<>>
  /\ user # <<>>
  /\ evalFlagValues # defaultValues


\* The subject of the scenario's identify call, and the snapshot a fresh
\* instance holds after the scenario's two calls in either order.
ScenarioUser == <<UserObject(scenario.id, scenario.properties)>>
SetConfigThenIdentify ==
  evalFlags(defaultValues, scenario.config, ScenarioUser,
            evalFlags(defaultValues, scenario.config, <<>>, defaultValues).values).values
IdentifyThenSetConfig ==
  evalFlags(defaultValues, scenario.config, ScenarioUser,
            evalFlags(defaultValues, DEFAULT_CONFIG, ScenarioUser, defaultValues).values).values

\* C32: setConfig(c) then identify(u, p) and identify(u, p) then setConfig(c)
\* leave the same snapshot on a fresh instance, and it is the snapshot held
\* whenever the later of the two calls has returned.
OrderIndependence ==
  /\ SetConfigThenIdentify = IdentifyThenSetConfig
  /\ (lastMutation = "identify" /\ config = scenario.config) =>
       evalFlagValues = SetConfigThenIdentify
  /\ (lastMutation = "setConfig" /\ user # <<>>) =>
       evalFlagValues = IdentifyThenSetConfig

OrderIndependenceWitness ==
  /\ call.op = "setConfig"
  /\ user = ScenarioUser
  /\ evalFlagValues = SetConfigThenIdentify
  /\ evalFlagValues # defaultValues
  /\ evalFlagValues # evalFlags(defaultValues, config, <<>>, defaultValues).values
  /\ \E f \in DefaultNames : MatcherRule(f) /\ Len(config.flags[f]) > 2


\* The call at position k is subscribe(l) for a listener that is registered.
DuplicateAt(k, l) == SubscribedAt(k, l) /\ l \in Registered(Calls[k])

Belongs(c) ==
  /\ user # <<>>
  /\ c \in DOMAIN config.cohorts
  /\ \E i \in 1..Len(config.cohorts[c]) :
       LET m == config.cohorts[c][i]
       IN IF m.t = "object"
          THEN \A key \in DOMAIN m.v : JSGet(user[1], key) = m.v[key]
          ELSE ~IsCohortReference(m) /\ JSGet(user[1], "id") = m

\* C34: right after setConfig or identify, with a subject identified by a
\* string that starts with the cohort prefix, a flag whose rule is that very
\* string as its one matcher is enabled iff the subject belongs to the cohort
\* the string names.
ReservedPrefixWins ==
  (AfterEvaluation /\ user # <<>> /\ StartsWith(scenario.id, COHORT_PROPERTY_PREFIX)) =>
    \A f \in DefaultNames :
      (HasRule(f) /\ config.flags[f] = <<FALSE, JSString(scenario.id)>>) =>
        isEnabled(f) =
          JSBoolean(Belongs(Slice(scenario.id, Len(COHORT_PROPERTY_PREFIX))))

ReservedPrefixWinsWitness ==
  /\ AfterEvaluation
  /\ user # <<>>
  /\ JSGet(user[1], "id") = CohortRef("c1")
  /\ HasRule("a")
  /\ config.flags["a"] = <<FALSE, CohortRef("c1")>>
  /\ "c1" \in DOMAIN config.cohorts
  /\ ~Belongs("c1")
  /\ isEnabled("a") = JSBoolean(FALSE)


\* C35: right after setConfig or identify, a default-set flag whose rule is
\* [false, {}] is enabled iff a subject is present.
EmptyPropertyMatcher ==
  AfterEvaluation =>
    \A f \in DefaultNames :
      (HasRule(f) /\ config.flags[f] = <<FALSE, JSObject(EmptyProperties)>>) =>
        isEnabled(f) = JSBoolean(user # <<>>)

EmptyPropertyMatcherWitness ==
  /\ call.op = "identify"
  /\ HasRule("a")
  /\ config.flags["a"] = <<FALSE, JSObject(EmptyProperties)>>
  /\ ~defaultValues["a"]
  /\ user = <<UserObject("u2", PlanNumber)>>
  /\ isEnabled("a") = JSBoolean(TRUE)


\* The recorded run holds only calls both classes have (the older class has
\* no reset).
CommonOperations == \A i \in Positions : Calls[i].call.op # "reset"

\* How often listener l occurs among the listeners a call invoked.
Times(notif, l) == Cardinality({i \in 1..Len(notif) : notif[i] = l})

\* C36: after every run of setConfig, identify, subscribe and handle calls,
\* the older class given the same calls returns from isEnabled what the newer
\* class returns, for every name, and its most recent call invoked every
\* listener as often as the newer class's did.
ImplementationsAgree ==
  CommonOperations =>
    /\ \A flag \in DefaultNames \cup UnknownNames :
         olderIsEnabled(OlderRun(Len(Calls)).flags, flag) = isEnabled(flag)
    /\ \A l \in Listeners :
         Times(OlderRun(Len(Calls)).notified, l) = Times(notified, l)

ImplementationsAgreeWitness ==
  /\ CommonOperations
  /\ Len(Calls) = 4
  /\ Calls[1].call.op = "subscribe"
  /\ Calls[2].call.op = "setConfig"
  /\ Calls[3].call.op = "identify"
  /\ Calls[4].call.op = "setConfig"
  /\ \A i \in 2..4 : ChangedFlags(Calls[i]) # {}
  /\ \E f \in DefaultNames : ~HasRule(f) /\ Calls[4].before[f] # defaultValues[f]
  /\ notified # <<>>
  /\ OlderRun(4).notified = notified
  /\ OlderRun(4).flags = evalFlagValues

====
